---- MODULE Spec2Model ----
(***************************************************************************)
(* FakeDonald's inventory manager (mcd_inventory_critical_threshold.py).   *)
(*                                                                         *)
(* Text (console lines, CSV fields) is a sequence of one-character         *)
(* strings, so that int(), float(), str(), str.isdigit(), str.strip() and  *)
(* str.lower() are modelled by what they do to the characters.             *)
(* A Python float is modelled as an exact reduced fraction <<n, d>>, d > 0 *)
(* (binary rounding of the IEEE double is outside the model).              *)
(* The csv module is modelled at the level of rows of fields: a file is a  *)
(* sequence of rows, each row a record of five text fields.                *)
(***************************************************************************)
EXTENDS Integers, Sequences, FiniteSets, TLC

(* ---------------------------- bounds ----------------------------------- *)
\* rows in the persisted file at start
MaxRows == 2
\* menu selections other than 5 in one session
MaxOps == 2
\* valid picks in one place_order invocation
MaxPicks == 2

(* ---------------------------- characters ------------------------------- *)
DecimalChars == <<"0", "1", "2", "3", "4", "5", "6", "7", "8", "9">>

UpperChars == <<"A", "B", "C", "D", "E", "F", "G", "H", "I", "J", "K", "L", "M",
                "N", "O", "P", "Q", "R", "S", "T", "U", "V", "W", "X", "Y", "Z">>

LowerChars == <<"a", "b", "c", "d", "e", "f", "g", "h", "i", "j", "k", "l", "m",
                "n", "o", "p", "q", "r", "s", "t", "u", "v", "w", "x", "y", "z">>

\* SUPERSCRIPT TWO (U+00B2): Unicode category No, Numeric_Type=Digit
Sup2 == "sup2"

WhiteChars == {" ", "\t"}

IndexOf(c, seq) == CHOOSE k \in 1..Len(seq) : seq[k] = c

IsDecimalChar(c) == \E k \in 1..Len(DecimalChars) : DecimalChars[k] = c

\* str.isdigit() per character: decimal digits and the other Numeric_Type=Digit characters
IsDigitChar(c) == IsDecimalChar(c) \/ c = Sup2

DigitVal(c) == IndexOf(c, DecimalChars) - 1

\* str.lower() per character
LowerChar(c) ==
    IF \E k \in 1..Len(UpperChars) : UpperChars[k] = c
    THEN LowerChars[IndexOf(c, UpperChars)]
    ELSE c

\* str.lower()
lower(s) == [k \in 1..Len(s) |-> LowerChar(s[k])]

RECURSIVE lstrip(_)
lstrip(s) == IF s # <<>> /\ Head(s) \in WhiteChars THEN lstrip(Tail(s)) ELSE s

RECURSIVE rstrip(_)
rstrip(s) ==
    IF s # <<>> /\ s[Len(s)] \in WhiteChars THEN rstrip(SubSeq(s, 1, Len(s) - 1)) ELSE s

\* str.strip()
strip(s) == rstrip(lstrip(s))

\* str.isdigit(): non-empty and every character is a digit character
isdigit(s) == s # <<>> /\ \A k \in 1..Len(s) : IsDigitChar(s[k])

AllDecimal(s) == s # <<>> /\ \A k \in 1..Len(s) : IsDecimalChar(s[k])

RECURSIVE DigitsValue(_)
DigitsValue(s) ==
    IF s = <<>> THEN 0 ELSE 10 * DigitsValue(SubSeq(s, 1, Len(s) - 1)) + DigitVal(s[Len(s)])

\* the result of a conversion that may raise ValueError
Ok(v) == [ok |-> TRUE, val |-> v]
ValueError == [ok |-> FALSE, val |-> 0]

\* int(str): surrounding whitespace, an optional sign, then decimal digits only
int(s) ==
    LET t == strip(s)
        signed == t # <<>> /\ Head(t) \in {"+", "-"}
        digits == IF signed THEN Tail(t) ELSE t
    IN  IF ~AllDecimal(digits) THEN ValueError
        ELSE IF signed /\ Head(t) = "-" THEN Ok(0 - DigitsValue(digits))
        ELSE Ok(DigitsValue(digits))

RECURSIVE NatDigits(_)
NatDigits(n) ==
    IF n < 10 THEN <<DecimalChars[n + 1]>>
    ELSE NatDigits(n \div 10) \o <<DecimalChars[(n % 10) + 1]>>

\* str(int), as csv.DictWriter writes an int field
IntStr(n) == IF n < 0 THEN <<"-">> \o NatDigits(0 - n) ELSE NatDigits(n)

(* ---------------------------- floats ----------------------------------- *)
RECURSIVE GCD(_, _)
GCD(a, b) == IF b = 0 THEN a ELSE GCD(b, a % b)

Abs(n) == IF n < 0 THEN 0 - n ELSE n

\* the fraction n/d in lowest terms with a positive denominator
Frac(n, d) ==
    LET g == GCD(Abs(n), Abs(d))
        s == IF d < 0 THEN 0 - 1 ELSE 1
    IN  <<(s * n) \div g, (s * d) \div g>>

FAdd(a, b) == Frac(a[1] * b[2] + b[1] * a[2], a[2] * b[2])
FMul(a, b) == Frac(a[1] * b[1], a[2] * b[2])
\* float * int, int * float
FTimes(a, k) == Frac(a[1] * k, a[2])
\* float / int (k # 0)
FOver(a, k) == Frac(a[1], a[2] * k)
FZero == <<0, 1>>

RECURSIVE Pow10(_)
Pow10(k) == IF k = 0 THEN 1 ELSE 10 * Pow10(k - 1)

PosOf(c, s) == IF \E k \in 1..Len(s) : s[k] = c THEN IndexOf(c, s) ELSE 0

\* float(str) on plain decimal notation: [sign] digits [ "." digits ]
float(s) ==
    LET t == strip(s)
        signed == t # <<>> /\ Head(t) \in {"+", "-"}
        body == IF signed THEN Tail(t) ELSE t
        dot == PosOf(".", body)
        ip == IF dot = 0 THEN body ELSE SubSeq(body, 1, dot - 1)
        fp == IF dot = 0 THEN <<>> ELSE SubSeq(body, dot + 1, Len(body))
        wellformed == /\ ip \o fp # <<>>
                      /\ \A k \in 1..Len(ip) : IsDecimalChar(ip[k])
                      /\ \A k \in 1..Len(fp) : IsDecimalChar(fp[k])
        mag == Frac(DigitsValue(ip) * Pow10(Len(fp)) + DigitsValue(fp), Pow10(Len(fp)))
    IN  IF ~wellformed THEN ValueError
        ELSE IF signed /\ Head(t) = "-" THEN Ok(<<0 - mag[1], mag[2]>>)
        ELSE Ok(mag)

\* least k >= 1 such that d divides 10^k (d has no prime factor other than 2 and 5)
RECURSIVE FracDigits(_, _)
FracDigits(d, k) == IF Pow10(k) % d = 0 THEN k ELSE FracDigits(d, k + 1)

RECURSIVE ZeroPad(_, _)
ZeroPad(s, k) == IF Len(s) >= k THEN s ELSE ZeroPad(<<"0">> \o s, k)

\* mutant of FloatStr: one fractional digit is written, like format(f, ".1f") truncated
FloatStrOneDecimal(f) ==
    LET scaled == (Abs(f[1]) * 10) \div f[2]
        text == NatDigits(scaled \div 10) \o <<".">> \o NatDigits(scaled % 10)
    IN  IF f[1] < 0 THEN <<"-">> \o text ELSE text

\* repr(float), as csv.DictWriter writes a float field: the shortest decimal
\* string that reads back as the same float, always with a fractional part
FloatStr(f) ==
    LET k == FracDigits(f[2], 1)
        scaled == (Abs(f[1]) * Pow10(k)) \div f[2]
        text == NatDigits(scaled \div Pow10(k)) \o <<".">>
                    \o ZeroPad(NatDigits(scaled % Pow10(k)), k)
    IN  IF f[1] < 0 THEN <<"-">> \o text ELSE text

(* ---------------------------- persisted file --------------------------- *)
Row(n, q, p, u, c) ==
    [name |-> n, quantity |-> q, price |-> p, units_per_box |-> u, critical_level |-> c]

\* well-formed rows of inventory.csv (numeric fields parse, units_per_box # 0)
RowPool ==
    << Row(<<"P", "a", "t", "t", "y">>, <<"1", "0">>, <<"2", "0", ".", "0", "0">>, <<"5", "0">>, <<"5">>),
       Row(<<"b", "u", "n">>, <<"2">>, <<"4", ".", "5">>, <<"8">>, <<"2">>),
       Row(<<"B", "U", "N">>, <<" ", "5">>, <<"3">>, <<"1", "2">>, <<"5">>),
       Row(<<"c", "u", "p">>, <<"-", "1">>, <<"0", ".", "0", "5">>, <<"4">>, <<"0">>),
       Row(<<"F", "r", "y">>, <<"0", "7">>, <<"1", "2", ".", "2", "5">>, <<"+", "5">>, <<"7">>) >>

File(rows) == [exists |-> TRUE, rows |-> rows]

\* inventory.csv is missing: open() raises FileNotFoundError
NoFile == [exists |-> FALSE, rows |-> <<>>]

RECURSIVE RowSeqs(_)
RowSeqs(n) ==
    IF n = 0 THEN {<<>>}
    ELSE RowSeqs(n - 1) \cup
         {Append(f, RowPool[k]) : f \in {g \in RowSeqs(n - 1) : Len(g) = n - 1}, k \in 1..Len(RowPool)}

\* every file of at most MaxRows rows drawn from RowPool (rows may repeat)
Files == {File(rows) : rows \in RowSeqs(MaxRows)}

\* the files a session starts from: no file, or rows of the pool in pool order
SessionFiles ==
    {NoFile} \cup
    {f \in Files : \E a, b \in 0..3 : f.rows = SubSeq(RowPool, a + 1, b)}

(* ---------------------------- console input ---------------------------- *)
\* a line typed at a prompt: its text, and what it denotes to the operator
Line(t, k, v) == [text |-> t, kind |-> k, val |-> v]

NoLine == Line(<<>>, "none", 0)

Lines ==
    { Line(<<"1">>, "int", 1),
      Line(<<"2">>, "int", 2),
      Line(<<"0">>, "int", 0),
      Line(<<"-", "1">>, "int", 0 - 1),
      Line(<<"x">>, "other", 0),
      Line(<<Sup2>>, "other", 0),
      Line(<<"D", "o", "n", "e", " ">>, "done", 0) }

MenuLines ==
    { Line(<<"1">>, "int", 1),
      Line(<<"2">>, "int", 2),
      Line(<<"3">>, "int", 3),
      Line(<<"4">>, "int", 4),
      Line(<<" ", "5">>, "int", 5),
      Line(<<"x">>, "other", 0) }

(* ---------------------------- program ---------------------------------- *)
\* GST rate used in final invoice: 0.05
GST_RATE == <<1, 20>>

VARIABLES
    file,               \* inventory.csv: NoFile or a sequence of rows
    inventory,          \* dict name -> item, in insertion order
    pc,                 \* where main() is blocked or has ended
    i,                  \* enumerate() position in daily_inventory_entry / waste_entry
    idx,                \* place_order: index of the chosen item (0-based), -1 if none
    order,              \* place_order: dict name -> order line, in insertion order
    total_waste_cost,   \* waste_entry: running total
    alerts,             \* output of the last show_low_stock_alerts, <<>> if none
    invoice,            \* output of the last order summary, <<>> if none
    waste_report,       \* output of the last waste total, <<>> if none
    msg,                \* error message printed for the last input, "" if none
    tok,                \* the last line read at the menu or in place_order
    loaded,             \* history: the table load_inventory returned
    entry,              \* history: the table when the current handler was entered
    want,               \* history: the item number the operator asked for at the index prompt
    picks,              \* history: <<item number, boxes>> of each pick the operator completed
    typed,              \* history: the lines typed at the per-item prompts of the current handler
    writes,             \* history: number of save_inventory calls
    ops                 \* history: number of menu selections handled

vars == <<file, inventory, pc, i, idx, order, total_waste_cost, alerts, invoice,
          waste_report, msg, tok, loaded, entry, want, picks, typed, writes, ops>>

HasKey(d, n) == \E k \in 1..Len(d) : d[k].name = n

\* mutant of DictSet: an existing key keeps its first value
DictSetKeepFirst(d, rec) == IF HasKey(d, rec.name) THEN d ELSE Append(d, rec)

\* d[name] = rec on an insertion-ordered dict
DictSet(d, rec) ==
    IF HasKey(d, rec.name)
    THEN [k \in 1..Len(d) |-> IF d[k].name = rec.name THEN rec ELSE d[k]]
    ELSE Append(d, rec)

\* list(d.keys())
keys(d) == [k \in 1..Len(d) |-> d[k].name]

\* mutant of Item: per_unit_price is the box price, the division is missing
ItemNoDivide(row) ==
    LET price == float(row.price).val
    IN  [name |-> lower(row.name),
         quantity |-> int(row.quantity).val,
         price |-> price,
         units_per_box |-> int(row.units_per_box).val,
         critical_level |-> int(row.critical_level).val,
         per_unit_price |-> price]

\* the item a row of the file becomes, lines 70-84
Item(row) ==
    LET price == float(row.price).val
        units == int(row.units_per_box).val
    IN  [name |-> lower(row.name),
         quantity |-> int(row.quantity).val,
         price |-> price,
         units_per_box |-> units,
         critical_level |-> int(row.critical_level).val,
         per_unit_price |-> FOver(price, units)]

RECURSIVE LoadRows(_, _)
LoadRows(rows, inv) ==
    IF rows = <<>> THEN inv ELSE LoadRows(Tail(rows), DictSet(inv, Item(Head(rows))))

load_inventory(f) == IF ~f.exists THEN <<>> ELSE LoadRows(f.rows, <<>>)

save_inventory(inv) ==
    File([k \in 1..Len(inv) |->
            Row(inv[k].name, IntStr(inv[k].quantity), FloatStr(inv[k].price),
                IntStr(inv[k].units_per_box), IntStr(inv[k].critical_level))])

\* mutant of IsLow: an item at its critical level is flagged too
IsLowInclusive(item) == item.quantity <= item.critical_level

IsLow(item) == item.quantity < item.critical_level

RECURSIVE ScanFrom(_, _, _, _)
ScanFrom(inv, k, lines, found) ==
    IF k > Len(inv) THEN [lines |-> lines, stocked |-> ~found]
    ELSE IF IsLow(inv[k])
         THEN ScanFrom(inv, k + 1,
                       Append(lines, [name |-> inv[k].name, quantity |-> inv[k].quantity,
                                      critical_level |-> inv[k].critical_level]),
                       TRUE)
         ELSE ScanFrom(inv, k + 1, lines, found)

\* what show_low_stock_alerts prints: the warning lines and whether the
\* "sufficiently stocked" message follows
show_low_stock_alerts(inv) == ScanFrom(inv, 1, <<>>, FALSE)

\* mutant of SetQuantity: the value is added to the quantity instead of replacing it
SetQuantityAdd(inv, n, q) ==
    [k \in 1..Len(inv) |->
        IF inv[k].name = n THEN [inv[k] EXCEPT !.quantity = @ + q] ELSE inv[k]]

SetQuantity(inv, n, q) ==
    [k \in 1..Len(inv) |-> IF inv[k].name = n THEN [inv[k] EXCEPT !.quantity = q] ELSE inv[k]]

Init ==
    /\ file \in SessionFiles
    /\ inventory = <<>>
    /\ pc = "load"
    /\ i = 0
    /\ idx = 0 - 1
    /\ order = <<>>
    /\ total_waste_cost = FZero
    /\ alerts = <<>>
    /\ invoice = <<>>
    /\ waste_report = <<>>
    /\ msg = ""
    /\ tok = NoLine
    /\ loaded = <<>>
    /\ entry = <<>>
    /\ want = 0
    /\ picks = <<>>
    /\ typed = <<>>
    /\ writes = 0
    /\ ops = 0

\* main, lines 193-195: load the table, then the first low-stock scan
Load ==
    /\ pc = "load"
    /\ inventory' = load_inventory(file)
    /\ loaded' = inventory'
    /\ alerts' = <<show_low_stock_alerts(inventory')>>
    /\ pc' = "menu"
    /\ UNCHANGED <<file, i, idx, order, total_waste_cost, invoice, waste_report, msg, tok,
                   entry, want, picks, typed, writes, ops>>

\* the reading of the menu selection: option = input(...).strip()
Selected(line, digit) == strip(line.text) = <<digit>>

\* state every menu selection resets before it dispatches
Dispatch(line) ==
    /\ pc = "menu"
    /\ line \in MenuLines
    /\ tok' = line
    /\ entry' = inventory
    /\ want' = 0
    /\ picks' = <<>>
    /\ typed' = <<>>
    /\ invoice' = <<>>
    /\ idx' = 0 - 1
    /\ order' = <<>>
    /\ total_waste_cost' = FZero

\* option 1: show_low_stock_alerts, show_inventory
View ==
    \E line \in MenuLines :
        /\ Dispatch(line)
        /\ Selected(line, "1")
        /\ ops < MaxOps
        /\ ops' = ops + 1
        /\ alerts' = <<show_low_stock_alerts(inventory)>>
        /\ waste_report' = <<>>
        /\ msg' = ""
        /\ UNCHANGED <<file, inventory, pc, i, loaded, writes>>

\* option 2: show_low_stock_alerts, then daily_inventory_entry up to its first prompt
StartDaily ==
    \E line \in MenuLines :
        /\ Dispatch(line)
        /\ Selected(line, "2")
        /\ ops < MaxOps
        /\ ops' = ops + 1
        /\ alerts' = <<show_low_stock_alerts(inventory)>>
        /\ waste_report' = <<>>
        /\ msg' = ""
        /\ IF Len(inventory) = 0
           THEN pc' = "menu" /\ i' = 0
           ELSE pc' = "daily" /\ i' = 1
        /\ UNCHANGED <<file, inventory, loaded, writes>>

\* daily_inventory_entry: one iteration of the loop, from its input() on
DailyEntry ==
    \E line \in Lines :
        /\ pc = "daily"
        /\ typed' = Append(typed, line)
        /\ LET new_qty == int(line.text)
               name == inventory[i].name
           IN  IF new_qty.ok
               THEN /\ inventory' = SetQuantity(inventory, name, new_qty.val)
                    /\ msg' = ""
               ELSE /\ inventory' = inventory
                    /\ msg' = "Invalid input, skipping."
        /\ IF i = Len(inventory)
           THEN pc' = "menu" /\ i' = 0
           ELSE pc' = "daily" /\ i' = i + 1
        /\ UNCHANGED <<file, idx, order, total_waste_cost, alerts, invoice, waste_report,
                       tok, loaded, entry, want, picks, writes, ops>>

\* option 3: show_low_stock_alerts, then place_order up to its first prompt
StartOrder ==
    \E line \in MenuLines :
        /\ Dispatch(line)
        /\ Selected(line, "3")
        /\ ops < MaxOps
        /\ ops' = ops + 1
        /\ alerts' = <<show_low_stock_alerts(inventory)>>
        /\ waste_report' = <<>>
        /\ msg' = ""
        /\ pc' = "choice"
        /\ UNCHANGED <<file, inventory, i, loaded, writes>>

\* choice = input(...).strip().lower()
Choice(line) == lower(strip(line.text))

Done == <<"d", "o", "n", "e">>

RECURSIVE SumSubtotals(_)
SumSubtotals(lines) ==
    IF lines = <<>> THEN FZero
    ELSE FAdd(SumSubtotals(SubSeq(lines, 1, Len(lines) - 1)), lines[Len(lines)].subtotal)

\* mutant of Summary: the tax is computed but not added to the grand total
SummaryTaxNotAdded(ord) ==
    IF ord = <<>> THEN <<>>
    ELSE LET total == SumSubtotals(ord)
             gst == FMul(total, GST_RATE)
         IN  <<[lines |-> ord, total |-> total, gst |-> gst, grand_total |-> total]>>

\* the order summary, lines 165-176: printed only for a non-empty order
Summary(ord) ==
    IF ord = <<>> THEN <<>>
    ELSE LET total == SumSubtotals(ord)
             gst == FMul(total, GST_RATE)
             grand_total == FAdd(total, gst)
         IN  <<[lines |-> ord, total |-> total, gst |-> gst, grand_total |-> grand_total]>>

\* place_order: 'done' ends the loop, the summary follows
OrderDone ==
    \E line \in Lines :
        /\ pc = "choice"
        /\ Choice(line) = Done
        /\ tok' = line
        /\ msg' = ""
        /\ invoice' = Summary(order)
        /\ pc' = "menu"
        /\ UNCHANGED <<file, inventory, i, idx, order, total_waste_cost, alerts, waste_report,
                       loaded, entry, want, picks, typed, writes, ops>>

\* place_order, line 144: not choice.isdigit() or not (1 <= int(choice) <= len(items))
OrderInvalidChoice ==
    \E line \in Lines :
        /\ pc = "choice"
        /\ Choice(line) # Done
        /\ \/ ~isdigit(Choice(line))
           \/ /\ int(Choice(line)).ok
              /\ ~(1 <= int(Choice(line)).val /\ int(Choice(line)).val <= Len(keys(inventory)))
        /\ tok' = line
        /\ msg' = "Invalid choice."
        /\ UNCHANGED <<file, inventory, pc, i, idx, order, total_waste_cost, alerts, invoice,
                       waste_report, loaded, entry, want, picks, typed, writes, ops>>

\* place_order, line 144: choice.isdigit() holds and int(choice) raises ValueError
\* outside any try block; the exception leaves place_order and main
OrderChoiceRaises ==
    \E line \in Lines :
        /\ pc = "choice"
        /\ Choice(line) # Done
        /\ isdigit(Choice(line))
        /\ ~int(Choice(line)).ok
        /\ tok' = line
        /\ msg' = "ValueError"
        /\ pc' = "crashed"
        /\ UNCHANGED <<file, inventory, i, idx, order, total_waste_cost, alerts, invoice,
                       waste_report, loaded, entry, want, picks, typed, writes, ops>>

\* place_order, lines 148-149: a valid index, the quantity prompt follows
OrderPick ==
    \E line \in Lines :
        /\ pc = "choice"
        /\ Choice(line) # Done
        /\ isdigit(Choice(line))
        /\ int(Choice(line)).ok
        /\ 1 <= int(Choice(line)).val /\ int(Choice(line)).val <= Len(keys(inventory))
        /\ Len(picks) < MaxPicks
        /\ tok' = line
        /\ msg' = ""
        /\ idx' = int(Choice(line)).val - 1
        /\ want' = line.val
        /\ pc' = "qty"
        /\ UNCHANGED <<file, inventory, i, order, total_waste_cost, alerts, invoice,
                       waste_report, loaded, entry, picks, typed, writes, ops>>

\* mutant of OrderLine: the subtotal is the box price, not price * qty
OrderLineNoQty(name, qty, box_price) ==
    [name |-> name, qty |-> qty, unit_price |-> box_price, subtotal |-> box_price]

OrderLine(name, qty, box_price) ==
    [name |-> name, qty |-> qty, unit_price |-> box_price, subtotal |-> FTimes(box_price, qty)]

\* place_order, lines 150-163: the quantity prompt
OrderQty ==
    \E line \in Lines :
        /\ pc = "qty"
        /\ tok' = line
        /\ picks' = IF line.kind = "int" /\ line.val > 0
                    THEN Append(picks, <<want, line.val>>)
                    ELSE picks
        /\ LET qty == int(line.text)
               name == keys(inventory)[idx + 1]
               item == inventory[idx + 1]
           IN  IF ~qty.ok
               THEN /\ msg' = "Invalid quantity."
                    /\ UNCHANGED <<inventory, order>>
               ELSE IF qty.val <= 0
               THEN /\ msg' = "Must be > 0"
                    /\ UNCHANGED <<inventory, order>>
               ELSE /\ msg' = ""
                    /\ order' = DictSet(order, OrderLine(name, qty.val, item.price))
                    /\ inventory' = SetQuantity(inventory, name, item.quantity + qty.val)
        /\ pc' = "choice"
        /\ UNCHANGED <<file, i, idx, total_waste_cost, alerts, invoice, waste_report,
                       loaded, entry, want, typed, writes, ops>>

\* option 4: waste_entry up to its first prompt (no low-stock scan)
StartWaste ==
    \E line \in MenuLines :
        /\ Dispatch(line)
        /\ Selected(line, "4")
        /\ ops < MaxOps
        /\ ops' = ops + 1
        /\ alerts' = <<>>
        /\ msg' = ""
        /\ IF Len(inventory) = 0
           THEN pc' = "menu" /\ i' = 0 /\ waste_report' = <<FZero>>
           ELSE pc' = "waste" /\ i' = 1 /\ waste_report' = <<>>
        /\ UNCHANGED <<file, inventory, loaded, writes>>

\* mutant of WasteCost: wasted units are valued at the box price
WasteCostPerBox(item, units_wasted) == FTimes(item.price, units_wasted)

\* cost = units_wasted * item['per_unit_price']
WasteCost(item, units_wasted) == FTimes(item.per_unit_price, units_wasted)

\* waste_entry: one iteration of the loop, from its input() on; the total is
\* printed after the last item
WasteEntry ==
    \E line \in Lines :
        /\ pc = "waste"
        /\ typed' = Append(typed, line)
        /\ LET units_wasted == int(line.text)
               item == inventory[i]
           IN  IF units_wasted.ok
               THEN /\ total_waste_cost' =
                            FAdd(total_waste_cost, WasteCost(item, units_wasted.val))
                    /\ msg' = ""
               ELSE /\ total_waste_cost' = total_waste_cost
                    /\ msg' = "Invalid input, skipping."
        /\ IF i = Len(inventory)
           THEN pc' = "menu" /\ i' = 0 /\ waste_report' = <<total_waste_cost'>>
           ELSE pc' = "waste" /\ i' = i + 1 /\ waste_report' = <<>>
        /\ UNCHANGED <<file, inventory, idx, order, alerts, invoice, tok, loaded, entry,
                       want, picks, writes, ops>>

\* option 5: save_inventory, then break
SaveExit ==
    \E line \in MenuLines :
        /\ Dispatch(line)
        /\ Selected(line, "5")
        /\ file' = save_inventory(inventory)
        /\ writes' = writes + 1
        /\ alerts' = <<>>
        /\ waste_report' = <<>>
        /\ msg' = "Saved and exiting."
        /\ pc' = "exited"
        /\ UNCHANGED <<inventory, i, loaded, ops>>

\* any other selection
InvalidOption ==
    \E line \in MenuLines :
        /\ Dispatch(line)
        /\ \A d \in {"1", "2", "3", "4", "5"} : ~Selected(line, d)
        /\ ops < MaxOps
        /\ ops' = ops + 1
        /\ alerts' = <<>>
        /\ waste_report' = <<>>
        /\ msg' = "Invalid option."
        /\ UNCHANGED <<file, inventory, pc, i, loaded, writes>>

Next ==
    \/ Load
    \/ View
    \/ StartDaily
    \/ DailyEntry
    \/ StartOrder
    \/ OrderDone
    \/ OrderInvalidChoice
    \/ OrderChoiceRaises
    \/ OrderPick
    \/ OrderQty
    \/ StartWaste
    \/ WasteEntry
    \/ SaveExit
    \/ InvalidOption

Spec == Init /\ [][Next]_vars

(* ------------------- load / save / load round trip --------------------- *)
InitRT ==
    /\ file \in Files \cup {NoFile}
    /\ inventory = <<>>
    /\ pc = "rt_start"
    /\ i = 0
    /\ idx = 0 - 1
    /\ order = <<>>
    /\ total_waste_cost = FZero
    /\ alerts = <<>>
    /\ invoice = <<>>
    /\ waste_report = <<>>
    /\ msg = ""
    /\ tok = NoLine
    /\ loaded = <<>>
    /\ entry = <<>>
    /\ want = 0
    /\ picks = <<>>
    /\ typed = <<>>
    /\ writes = 0
    /\ ops = 0

RTFrame ==
    UNCHANGED <<i, idx, order, total_waste_cost, alerts, invoice, waste_report, msg, tok,
                entry, want, picks, typed, ops>>

\* T = load_inventory(filename)
RTLoad ==
    /\ pc = "rt_start"
    /\ inventory' = load_inventory(file)
    /\ loaded' = inventory'
    /\ pc' = "rt_loaded"
    /\ UNCHANGED <<file, writes>>
    /\ RTFrame

\* save_inventory(T, filename), T not mutated
RTSave ==
    /\ pc = "rt_loaded"
    /\ file' = save_inventory(inventory)
    /\ writes' = writes + 1
    /\ pc' = "rt_saved"
    /\ UNCHANGED <<inventory, loaded>>
    /\ RTFrame

\* load_inventory(filename) again
RTReload ==
    /\ pc = "rt_saved"
    /\ inventory' = load_inventory(file)
    /\ pc' = "rt_reloaded"
    /\ UNCHANGED <<file, loaded, writes>>
    /\ RTFrame

NextRT ==
    \/ RTLoad
    \/ RTSave
    \/ RTReload

SpecRT == InitRT /\ [][NextRT]_vars

(* ============================ claims =================================== *)
\* the operator's reading of a typed line
InRange(line, n) == line.kind = "int" /\ 1 <= line.val /\ line.val <= n
PositiveInt(line) == line.kind = "int" /\ line.val > 0

\* the collection loop of place_order has just ended
OrderEnded == pc = "menu" /\ tok.kind = "done"

\* C1: in place_order every valid pick (index line i in 1..number of items, then an
\* integer quantity line Q > 0) reaches the quantity prompt for the i-th item, adds
\* exactly Q to that item's quantity at that step, leaves every other item and every
\* other field unchanged, and records for the item the order line
\* {Q, unit price = its box price, subtotal = price * Q}.
C1_ValidPick ==
    [][ /\ (pc = "choice" /\ InRange(tok', Len(inventory)))
            => (pc' = "qty" /\ idx' = tok'.val - 1 /\ inventory' = inventory /\ order' = order)
        /\ (pc = "qty" /\ PositiveInt(tok'))
            => LET X == tok.val
                   Q == tok'.val
                   P == inventory[X].price
               IN  /\ InRange(tok, Len(inventory))
                   /\ pc' = "choice"
                   /\ inventory' = [inventory EXCEPT ![X].quantity = @ + Q]
                   /\ \A k \in 1..Len(inventory) : k # X => inventory'[k] = inventory[k]
                   /\ \E j \in 1..Len(order') :
                        /\ order'[j] = [name |-> inventory[X].name, qty |-> Q, unit_price |-> P,
                                        subtotal |-> Frac(P[1] * Q, P[2])]
                        /\ \A m \in 1..Len(order') : order'[m].name = order'[j].name => m = j
      ]_vars

\* C1 witness: a pick of 2 boxes of the second of two items has just been recorded
C1_Witness ==
    /\ pc = "choice"
    /\ Len(inventory) = 2
    /\ picks = <<<<2, 2>>>>
    /\ inventory[2].quantity = entry[2].quantity + 2
    /\ Len(order) = 1

RECURSIVE LineSum(_)
LineSum(lines) == IF lines = <<>> THEN <<0, 1>> ELSE FAdd(Head(lines).subtotal, LineSum(Tail(lines)))

\* C2: when the collection loop of place_order ends, an invoice is printed iff at least
\* one order line was recorded; its subtotal is the sum of the recorded lines'
\* subtotals, its tax is 5% of the subtotal, and its grand total is subtotal + tax.
C2_Invoice ==
    OrderEnded =>
        /\ (invoice # <<>>) <=> (order # <<>>)
        /\ (order # <<>>) <=> (picks # <<>>)
        /\ invoice # <<>> =>
            LET v == invoice[1]
            IN  /\ v.lines = order
                /\ v.total = LineSum(order)
                /\ v.gst[1] * 100 * v.total[2] = 5 * v.total[1] * v.gst[2]
                /\ v.grand_total[1] * v.total[2] * v.gst[2]
                      = (v.total[1] * v.gst[2] + v.gst[1] * v.total[2]) * v.grand_total[2]

\* C2 witness: 2 boxes at 20.00 are invoiced as subtotal 40.00, GST 2.00, total 42.00
C2_Witness ==
    /\ OrderEnded
    /\ invoice # <<>>
    /\ Len(invoice[1].lines) = 1
    /\ invoice[1].lines[1].qty = 2
    /\ invoice[1].lines[1].unit_price = <<20, 1>>
    /\ invoice[1].total = <<40, 1>>
    /\ invoice[1].gst = <<2, 1>>
    /\ invoice[1].grand_total = <<42, 1>>

\* C3: in place_order any invalid input (an index line that is not the sentinel and not
\* an integer in 1..number of items; a quantity line that is not a positive integer) is
\* reported, leaves the table and the order record as they were and returns to the
\* index prompt; the loop is left only when the sentinel 'done' is entered.
C3_InvalidInputNeverAborts ==
    [][ /\ (pc = "choice" /\ tok'.kind # "done" /\ ~InRange(tok', Len(inventory)))
            => (msg' # "" /\ inventory' = inventory /\ order' = order /\ pc' = "choice")
        /\ (pc = "qty" /\ ~PositiveInt(tok'))
            => (msg' # "" /\ inventory' = inventory /\ order' = order /\ pc' = "choice")
        /\ (pc \in {"choice", "qty"} /\ pc' \notin {"choice", "qty"})
            => (pc = "choice" /\ tok'.kind = "done" /\ pc' = "menu")
      ]_vars

\* C4: daily_inventory_entry prompts item 1, 2, ... n once each in table order; an
\* integer line V sets that item's quantity to V (any sign), any other line leaves it
\* at its value on entry, the loop goes on to the next item either way, and no other
\* field or item changes.
C4_CountUpdater ==
    [][ /\ (pc = "menu" /\ pc' = "daily")
            => (i' = 1 /\ typed' = <<>> /\ inventory' = inventory)
        /\ (pc = "daily")
            => LET line == typed'[Len(typed')]
               IN  /\ Len(typed') = i
                   /\ inventory' = [inventory EXCEPT
                                      ![i].quantity = IF line.kind = "int" THEN line.val ELSE @]
                   /\ line.kind # "int" => inventory'[i].quantity = entry[i].quantity
                   /\ IF i < Len(inventory)
                      THEN pc' = "daily" /\ i' = i + 1
                      ELSE pc' = "menu"
      ]_vars

\* C4 witness: the update of two items has ended; a non-integer line left item 1 at its
\* old quantity and the line -1 set item 2 to -1
C4_Witness ==
    /\ pc = "menu"
    /\ tok = Line(<<"2">>, "int", 2)
    /\ Len(typed) = 2
    /\ typed[1].kind = "other"
    /\ typed[2].val = 0 - 1
    /\ inventory[1].quantity = entry[1].quantity
    /\ inventory[2].quantity = 0 - 1
    /\ entry[2].quantity # 0 - 1

RECURSIVE WasteSum(_)
WasteSum(n) ==
    IF n = 0 THEN <<0, 1>>
    ELSE FAdd(WasteSum(n - 1),
              IF typed[n].kind = "int"
              THEN Frac(typed[n].val * inventory[n].price[1],
                        inventory[n].price[2] * inventory[n].units_per_box)
              ELSE <<0, 1>>)

\* C5: waste_entry never changes the item table; every item is prompted whatever was
\* typed before, and the reported total is the sum, over the items whose line was an
\* integer, of units_wasted * per_unit_price (other lines contribute nothing).
C5_WasteLogger ==
    (pc = "waste" \/ waste_report # <<>>) =>
        /\ inventory = entry
        /\ pc = "waste" => (waste_report = <<>> /\ Len(typed) = i - 1 /\ i <= Len(inventory))
        /\ waste_report # <<>> =>
            /\ pc = "menu"
            /\ Len(typed) = Len(inventory)
            /\ waste_report[1] = WasteSum(Len(typed))

\* C5 witness: with two items, a non-integer line for item 1 and 2 units for item 2
\* give a non-zero total
C5_Witness ==
    /\ waste_report # <<>>
    /\ Len(typed) = 2
    /\ typed[1].kind = "other"
    /\ typed[2] = Line(<<"2">>, "int", 2)
    /\ waste_report[1] = Frac(2 * inventory[2].price[1],
                              inventory[2].price[2] * inventory[2].units_per_box)
    /\ waste_report[1] # <<0, 1>>

\* the table the last low-stock scan read
Scanned == IF tok = NoLine THEN loaded ELSE entry

\* C6: show_low_stock_alerts warns for exactly the items with quantity < critical_level
\* (strictly), in table order, prints "sufficiently stocked" iff there is none (also for
\* an empty table), and leaves the table as it was.
C6_LowStockScan ==
    alerts # <<>> =>
        LET T == Scanned
            a == alerts[1]
            low == {k \in 1..Len(T) : T[k].quantity < T[k].critical_level}
        IN  /\ {a.lines[j].name : j \in 1..Len(a.lines)} = {T[k].name : k \in low}
            /\ Len(a.lines) = Cardinality(low)
            /\ \A j \in 1..Len(a.lines) : \E k \in low :
                    /\ a.lines[j].name = T[k].name
                    /\ a.lines[j].quantity = T[k].quantity
                    /\ a.lines[j].critical_level = T[k].critical_level
            /\ a.stocked <=> (low = {})
            /\ (pc = "menu" /\ typed = <<>> /\ tok \in {NoLine, Line(<<"1">>, "int", 1)})
                    => inventory = T

\* C6 witness: a scan that warned about one item and not about another whose quantity
\* equals its critical level
C6_Witness ==
    /\ alerts # <<>>
    /\ Len(alerts[1].lines) = 1
    /\ ~alerts[1].stocked
    /\ \E k \in 1..Len(Scanned) :
            /\ Scanned[k].quantity = Scanned[k].critical_level
            /\ \A j \in 1..Len(alerts[1].lines) : alerts[1].lines[j].name # Scanned[k].name

Terminated == pc \in {"exited", "crashed"}

\* C7: the menu loop ends only on selection 5; the file is written exactly once, at
\* selection 5 and never earlier, so whenever the session has ended the file's rows are
\* the in-memory table (name, quantity, price, units_per_box, critical_level in order).
C7_ExitOnlyBySaving ==
    /\ ~Terminated => writes = 0
    /\ Terminated =>
        /\ pc = "exited"
        /\ Selected(tok, "5")
        /\ writes = 1
        /\ file.exists
        /\ Len(file.rows) = Len(inventory)
        /\ \A k \in 1..Len(inventory) :
                /\ file.rows[k].name = inventory[k].name
                /\ int(file.rows[k].quantity) = Ok(inventory[k].quantity)
                /\ float(file.rows[k].price) = Ok(inventory[k].price)
                /\ int(file.rows[k].units_per_box) = Ok(inventory[k].units_per_box)
                /\ int(file.rows[k].critical_level) = Ok(inventory[k].critical_level)

\* C8: load, save without mutation, load again: the second table has the same names
\* in the same order and, item by item, the same quantity, box price, units_per_box,
\* critical_level and per_unit_price as the first.
C8_RoundTrip ==
    pc = "rt_reloaded" =>
        /\ Len(inventory) = Len(loaded)
        /\ \A k \in 1..Len(loaded) :
                /\ inventory[k].name = loaded[k].name
                /\ inventory[k].quantity = loaded[k].quantity
                /\ inventory[k].price = loaded[k].price
                /\ inventory[k].units_per_box = loaded[k].units_per_box
                /\ inventory[k].critical_level = loaded[k].critical_level
                /\ inventory[k].per_unit_price = loaded[k].per_unit_price

\* C8 witness: a reloaded table of two items, one with a negative quantity and a price
\* below 0.10, the other with a price with two fractional digits
C8_Witness ==
    /\ pc = "rt_reloaded"
    /\ writes = 1
    /\ Len(inventory) = 2
    /\ inventory[1].quantity < 0
    /\ inventory[1].price = <<1, 20>>
    /\ inventory[2].price = <<49, 4>>

RECURSIVE PickedSum(_, _)
PickedSum(n, k) ==
    IF n = 0 THEN 0
    ELSE PickedSum(n - 1, k) + (IF picks[n][1] = k THEN picks[n][2] ELSE 0)

PicksOf(k) == {n \in 1..Len(picks) : picks[n][1] = k}

LastPick(k) == picks[CHOOSE n \in PicksOf(k) : \A m \in PicksOf(k) : m <= n][2]

InOrder == pc \in {"choice", "qty", "crashed"} \/ OrderEnded

\* C9: throughout one place_order call and on its exit, each item's quantity is its
\* quantity on entry plus the sum of ALL its picks, while its order line (and the
\* invoice) holds the quantity and subtotal of its LAST pick only; so an item picked
\* more than once is invoiced for less than its stock increase.
C9_RepickOverwritesLine ==
    InOrder =>
        /\ Len(inventory) = Len(entry)
        /\ \A k \in 1..Len(inventory) :
            LET mine == {j \in 1..Len(order) : order[j].name = inventory[k].name}
            IN  /\ inventory[k].quantity = entry[k].quantity + PickedSum(Len(picks), k)
                /\ Cardinality(mine) = (IF PicksOf(k) = {} THEN 0 ELSE 1)
                /\ \A j \in mine :
                        /\ order[j].qty = LastPick(k)
                        /\ order[j].subtotal
                              = Frac(inventory[k].price[1] * LastPick(k), inventory[k].price[2])
                        /\ (order[j].qty = inventory[k].quantity - entry[k].quantity)
                              <=> (Cardinality(PicksOf(k)) = 1)
        /\ (OrderEnded /\ invoice # <<>>) => invoice[1].lines = order

\* C9 witness: item 1 was picked for 2 boxes and then for 1 box; stock rose by 3 and the
\* invoice shows 1
C9_Witness ==
    /\ OrderEnded
    /\ picks = <<<<1, 2>>, <<1, 1>>>>
    /\ inventory[1].quantity = entry[1].quantity + 3
    /\ invoice # <<>>
    /\ Len(invoice[1].lines) = 1
    /\ invoice[1].lines[1].qty = 1

\* what load fixed for the session
Fixed ==
    pc # "load" =>
        /\ Len(inventory) = Len(loaded)
        /\ \A k \in 1..Len(loaded) :
                /\ inventory[k].name = loaded[k].name
                /\ inventory[k].price = loaded[k].price
                /\ inventory[k].units_per_box = loaded[k].units_per_box
                /\ inventory[k].critical_level = loaded[k].critical_level
                /\ inventory[k].per_unit_price = loaded[k].per_unit_price
                /\ inventory[k].per_unit_price[1] * inventory[k].price[2] * inventory[k].units_per_box
                      = inventory[k].price[1] * inventory[k].per_unit_price[2]

\* C10: after load, under any menu selections and inputs, the item names and their
\* order, and each item's box price, units_per_box, critical_level and per_unit_price
\* stay as loaded (per_unit_price = box_price / units_per_box); only quantity changes,
\* and only in daily_inventory_entry and place_order.
C10_OnlyQuantityChanges ==
    [][ /\ Fixed'
        /\ inventory' # inventory =>
                \/ pc = "load"
                \/ pc = "daily" /\ tok = Line(<<"2">>, "int", 2)
                \/ pc = "qty"
      ]_vars

\* C10 witness: two selections later both items' quantities differ from the loaded ones
C10_Witness ==
    /\ pc = "menu"
    /\ ops = 2
    /\ Len(inventory) = 2
    /\ inventory[1].quantity # loaded[1].quantity
    /\ inventory[2].quantity # loaded[2].quantity
    /\ picks # <<>>

====
